---- MODULE Spec2Model ----
(***************************************************************************)
(* Model of the HTTP/2 client connection driver, src/proto/h2/client.rs.   *)
(*                                                                         *)
(* Client::poll is a loop; every action named Poll... below is one full    *)
(* iteration of that loop, from the `match self.state` at the top to the   *)
(* `continue`, the `self.state = next` or the `return` that ends it.  pc   *)
(* is the position of the driver: "idle" between two calls of poll,        *)
(* "running" inside a call, between two iterations.  The tasks handed to   *)
(* the executor, the callers and the queue producers run independently and *)
(* may take their steps between any two iterations.                        *)
(***************************************************************************)
EXTENDS Integers, Sequences, FiniteSets, TLC

\* Bounds of the model.
MaxReq == 2          \* number of distinct requests the producers may enqueue
MaxBody == 1         \* number of those whose body is not at end of stream
MaxCancel == 1       \* number of callers that give up their response slot
MaxReadyCalls == 3   \* number of capacity checks (tx.poll_ready) explored

Reqs == 1..MaxReq

VARIABLES
    state,       \* Client.state: "Handshaking" | "Ready"
    hs,          \* the Handshake future: "pending" | "done" | "failed"
    pc,          \* position of the driver: "idle" | "running"
    result,      \* what the latest call of poll returned; "pending" while
                 \* a call is running, "none" before the first call
    everDone,    \* rx has reported the queue closed and poll has returned
                 \* Ok(Async::Ready(())) for it, at least once
    dropped,     \* the Client has been dropped
    queue,       \* items waiting in rx, oldest first
    closed,      \* every dispatch::Sender of rx has been dropped
    enqOrder,    \* the requests in the order they were enqueued
    eos,         \* body.is_end_stream() of each request
    canceled,    \* the caller gave up its end of the response slot
    sendLog,     \* the send_request calls the session has seen, in order
    sendRes,     \* outcome of send_request per request: "none" | "ok" | "err"
    pipe,        \* body pipe task per request: "none" | "running" | "ok" | "err"
    resp,        \* response task per request: "none" | "waiting" | "done"
    sends,       \* number of cb.send calls made for each request
    slotVal,     \* what the caller can read from the slot: "empty" | "ok" | "err"
    cbDropped,   \* cb was dropped without a send (found canceled at dequeue)
    senders,     \* live ConnDropRef senders of the shutdown sentinel
    conn,        \* the connection-driving future: "none" | "running" | "ok" | "err"
    comp,        \* the composite task: "none" | "select" | "shutdown" | "ok" | "err"
    execLog,     \* the futures handed to executor.execute, in order
    readyCalls,  \* number of tx.poll_ready calls the session has seen
    lastReady,   \* answer of the latest tx.poll_ready call
    lastRx       \* answer of self.rx.poll() in the latest iteration of poll:
                 \* "Item" | "None" | "NotReady" | "Err", "none" if not called

vars == <<state, hs, pc, result, everDone, dropped, queue, closed, enqOrder,
          eos, canceled, sendLog, sendRes, pipe, resp, sends, slotVal,
          cbDropped, senders, conn, comp, execLog, readyCalls, lastReady,
          lastRx>>

driverVars == <<state, hs, pc, result, everDone, dropped, lastRx>>
queueVars == <<queue, closed, enqOrder, eos>>
sessionVars == <<sendLog, sendRes, readyCalls, lastReady>>
taskVars == <<pipe, resp, execLog>>
slotVars == <<sends, slotVal, cbDropped>>
connVars == <<senders, conn, comp>>

Range(s) == {s[k] : k \in 1..Len(s)}

\* The enqueued requests that still have a body to send, and the callers
\* that have given up.
WithBody == {j \in Range(enqOrder) : ~eos[j]}
Gone == {j \in Reqs : canceled[j]}

Init ==
    /\ state = "Handshaking"
    /\ hs = "pending"
    /\ pc = "idle"
    /\ result = "none"
    /\ everDone = FALSE
    /\ dropped = FALSE
    /\ queue = <<>>
    /\ closed = FALSE
    /\ enqOrder = <<>>
    /\ eos = [i \in Reqs |-> TRUE]
    /\ canceled = [i \in Reqs |-> FALSE]
    /\ sendLog = <<>>
    /\ sendRes = [i \in Reqs |-> "none"]
    /\ pipe = [i \in Reqs |-> "none"]
    /\ resp = [i \in Reqs |-> "none"]
    /\ sends = [i \in Reqs |-> 0]
    /\ slotVal = [i \in Reqs |-> "empty"]
    /\ cbDropped = [i \in Reqs |-> FALSE]
    /\ senders = 0
    /\ conn = "none"
    /\ comp = "none"
    /\ execLog = <<>>
    /\ readyCalls = 0
    /\ lastReady = "none"
    /\ lastRx = "none"

----------------------------------------------------------------------------
\* The environment: queue producers and callers.

\* A producer sends (req, cb) into the dispatch channel; the requests are
\* numbered in the order they are enqueued.
Enqueue(i, e) ==
    /\ ~closed /\ ~dropped
    /\ i = Len(enqOrder) + 1
    /\ ~e => Cardinality(WithBody) < MaxBody
    /\ queue' = Append(queue, i)
    /\ enqOrder' = Append(enqOrder, i)
    /\ eos' = [eos EXCEPT ![i] = e]
    /\ UNCHANGED <<driverVars, closed, canceled, sessionVars, taskVars,
                   slotVars, connVars>>

\* The last dispatch::Sender is dropped.
CloseQueue ==
    /\ ~closed
    /\ closed' = TRUE
    /\ UNCHANGED <<driverVars, queue, enqOrder, eos, canceled, sessionVars,
                   taskVars, slotVars, connVars>>

\* The caller of request i cancels: it drops its end of the response slot
\* before anything was delivered to it.
Cancel(i) ==
    /\ i \in Range(enqOrder)
    /\ ~canceled[i]
    /\ Cardinality(Gone) < MaxCancel
    /\ slotVal[i] = "empty"
    /\ canceled' = [canceled EXCEPT ![i] = TRUE]
    /\ UNCHANGED <<driverVars, queueVars, sessionVars, taskVars, slotVars,
                   connVars>>

----------------------------------------------------------------------------
\* Client::poll, one action per path through one iteration of its loop.

\* A call or an iteration of poll can start: the Client is alive.
CanPoll == ~dropped

\* `return r` from poll.
Return(r) ==
    /\ pc' = "idle"
    /\ result' = r
    /\ everDone' = (everDone \/ r = "Done")

\* `continue`, or falling through to `self.state = next`: the call of poll
\* goes on and has returned nothing yet.
Continue ==
    /\ pc' = "running"
    /\ result' = "pending"
    /\ UNCHANGED everDone

\* State::Handshaking, h.poll() is NotReady: try_ready! returns NotReady.
PollHandshakeNotReady ==
    /\ CanPoll /\ state = "Handshaking" /\ hs = "pending"
    /\ lastRx' = "none"
    /\ Return("NotReady")
    /\ UNCHANGED <<state, hs, dropped, queueVars, canceled, sessionVars,
                   taskVars, slotVars, connVars>>

\* PollHandshakeErr with the error swallowed: poll reports NotReady.
PollHandshakeErr_swallow ==
    /\ CanPoll /\ state = "Handshaking" /\ hs = "pending"
    /\ lastRx' = "none"
    /\ hs' = "failed"
    /\ Return("NotReady")
    /\ UNCHANGED <<state, dropped, queueVars, canceled, sessionVars,
                   taskVars, slotVars, connVars>>

\* State::Handshaking, h.poll() fails: try_ready! returns the mapped error.
PollHandshakeErr ==
    /\ CanPoll /\ state = "Handshaking" /\ hs = "pending"
    /\ lastRx' = "none"
    /\ hs' = "failed"
    /\ Return("Err")
    /\ UNCHANGED <<state, dropped, queueVars, canceled, sessionVars,
                   taskVars, slotVars, connVars>>

\* PollHandshakeOk without `self.state = next`: the composite future is
\* executed but the state stays Handshaking, to be polled again.
PollHandshakeOk_noTransition ==
    /\ CanPoll /\ state = "Handshaking" /\ hs = "pending"
    /\ lastRx' = "none"
    /\ senders' = senders + 1
    /\ conn' = "running"
    /\ comp' = "select"
    /\ execLog' = Append(execLog, [task |-> "conn", id |-> 0])
    /\ Len(execLog) < 2
    /\ Continue
    /\ UNCHANGED <<state, hs, dropped, queueVars, canceled, sessionVars,
                   pipe, resp, slotVars>>

\* State::Handshaking, h.poll() is Ready((request_tx, conn)): the sentinel
\* channel is created, the composite future is handed to the executor and
\* the state becomes Ready(request_tx, tx).
PollHandshakeOk ==
    /\ CanPoll /\ state = "Handshaking" /\ hs = "pending"
    /\ lastRx' = "none"
    /\ hs' = "done"
    /\ senders' = 1
    /\ conn' = "running"
    /\ comp' = "select"
    /\ execLog' = Append(execLog, [task |-> "conn", id |-> 0])
    /\ state' = "Ready"
    /\ Continue
    /\ UNCHANGED <<dropped, queueVars, canceled, sessionVars, pipe, resp,
                   slotVars>>

\* Every iteration in State::Ready begins with tx.poll_ready(), answer rdy.
PollReadyCall(rdy) ==
    /\ CanPoll /\ state = "Ready"
    /\ readyCalls < MaxReadyCalls
    /\ readyCalls' = readyCalls + 1
    /\ lastReady' = rdy

\* RxPoll with the newest item taken first.
RxPoll_lifo ==
    IF queue # <<>>
    THEN [kind |-> "Item", item |-> queue[Len(queue)],
          rest |-> SubSeq(queue, 1, Len(queue) - 1)]
    ELSE IF closed THEN [kind |-> "None", item |-> 0, rest |-> queue]
    ELSE [kind |-> "NotReady", item |-> 0, rest |-> queue]

\* self.rx.poll(): the oldest item when one is queued, None when the queue is
\* empty and closed, NotReady otherwise; rest is what stays in the queue.
RxPoll ==
    IF queue # <<>>
    THEN [kind |-> "Item", item |-> Head(queue), rest |-> Tail(queue)]
    ELSE IF closed THEN [kind |-> "None", item |-> 0, rest |-> queue]
    ELSE [kind |-> "NotReady", item |-> 0, rest |-> queue]

\* PollCapacityNotReady with rx polled before the capacity check: the item
\* taken from the queue is lost when the check then reports NotReady.
PollCapacityNotReady_rxFirst ==
    /\ PollReadyCall("NotReady")
    /\ Return("NotReady")
    /\ queue' = RxPoll.rest
    /\ lastRx' = RxPoll.kind
    /\ UNCHANGED <<state, hs, dropped, closed, enqOrder, eos, canceled,
                   sendLog, sendRes, taskVars, slotVars, connVars>>

\* PollCapacityNotReady without try_ready!: the NotReady answer is ignored
\* and poll goes on to the queue, here closed or not ready.
PollCapacityNotReady_ignored ==
    /\ PollReadyCall("NotReady")
    /\ RxPoll.kind # "Item"
    /\ lastRx' = RxPoll.kind
    /\ Return(IF RxPoll.kind = "None" THEN "Done" ELSE "NotReady")
    /\ UNCHANGED <<state, hs, dropped, queueVars, canceled, sendLog, sendRes,
                   taskVars, slotVars, connVars>>

\* tx.poll_ready() is NotReady: try_ready! returns NotReady.
PollCapacityNotReady ==
    /\ PollReadyCall("NotReady")
    /\ lastRx' = "none"
    /\ Return("NotReady")
    /\ UNCHANGED <<state, hs, dropped, queueVars, canceled, sendLog, sendRes,
                   taskVars, slotVars, connVars>>

\* PollCapacityErr with the error of poll_ready taken for NotReady.
PollCapacityErr_swallow ==
    /\ PollReadyCall("Err")
    /\ lastRx' = "none"
    /\ Return("NotReady")
    /\ UNCHANGED <<state, hs, dropped, queueVars, canceled, sendLog, sendRes,
                   taskVars, slotVars, connVars>>

\* tx.poll_ready() fails: try_ready! returns the mapped error.
PollCapacityErr ==
    /\ PollReadyCall("Err")
    /\ lastRx' = "none"
    /\ Return("Err")
    /\ UNCHANGED <<state, hs, dropped, queueVars, canceled, sendLog, sendRes,
                   taskVars, slotVars, connVars>>

\* Capacity, and rx.poll() is NotReady.
PollQueueNotReady ==
    /\ PollReadyCall("Ready")
    /\ RxPoll.kind = "NotReady"
    /\ lastRx' = RxPoll.kind
    /\ Return("NotReady")
    /\ UNCHANGED <<state, hs, dropped, queueVars, canceled, sendLog, sendRes,
                   taskVars, slotVars, connVars>>

\* PollQueueClosed with the driver's ConnDropRef released when it returns
\* done.
PollQueueClosed_release ==
    /\ PollReadyCall("Ready")
    /\ RxPoll.kind = "None"
    /\ lastRx' = RxPoll.kind
    /\ Return("Done")
    /\ senders' = senders - 1
    /\ UNCHANGED <<state, hs, dropped, queueVars, canceled, sendLog, sendRes,
                   taskVars, slotVars, conn, comp>>

\* Capacity, and rx.poll() is Ready(None): return Ok(Async::Ready(())).
PollQueueClosed ==
    /\ PollReadyCall("Ready")
    /\ RxPoll.kind = "None"
    /\ lastRx' = RxPoll.kind
    /\ Return("Done")
    /\ UNCHANGED <<state, hs, dropped, queueVars, canceled, sendLog, sendRes,
                   taskVars, slotVars, connVars>>

\* PollQueueErr with the error of rx.poll() returned from poll, as by
\* try_ready!.
PollQueueErr_fatal ==
    /\ PollReadyCall("Ready")
    /\ lastRx' = "Err"
    /\ pc' = "idle"
    /\ result' = "Err"
    /\ UNCHANGED <<state, hs, everDone, dropped, queueVars, canceled,
                   sendLog, sendRes, taskVars, slotVars, connVars>>

\* Capacity, and rx.poll() is Err(_): the same arm, return
\* Ok(Async::Ready(())).  The channel is left as it is.
PollQueueErr ==
    /\ PollReadyCall("Ready")
    /\ lastRx' = "Err"
    /\ pc' = "idle"
    /\ result' = "Done"
    /\ UNCHANGED <<state, hs, everDone, dropped, queueVars, canceled,
                   sendLog, sendRes, taskVars, slotVars, connVars>>

\* Capacity, an item is dequeued and cb.poll_cancel() is Ready: the request
\* and cb are dropped, `continue`.
PollCanceled ==
    /\ PollReadyCall("Ready")
    /\ RxPoll.kind = "Item"
    /\ lastRx' = RxPoll.kind
    /\ LET i == RxPoll.item IN
        /\ canceled[i]
        /\ queue' = RxPoll.rest
        /\ cbDropped' = [cbDropped EXCEPT ![i] = TRUE]
    /\ Continue
    /\ UNCHANGED <<state, hs, dropped, closed, enqOrder, eos, canceled,
                   sendLog, sendRes, taskVars, sends, slotVal, connVars>>

\* PollSendErr with the error also returned from poll.
PollSendErr_fatal(gone) ==
    /\ PollReadyCall("Ready")
    /\ RxPoll.kind = "Item"
    /\ lastRx' = RxPoll.kind
    /\ LET i == RxPoll.item IN
        /\ ~canceled[i]
        /\ gone => Cardinality(Gone) < MaxCancel
        /\ queue' = RxPoll.rest
        /\ sendLog' = Append(sendLog, i)
        /\ sendRes' = [sendRes EXCEPT ![i] = "err"]
        /\ sends' = [sends EXCEPT ![i] = @ + 1]
        /\ canceled' = [canceled EXCEPT ![i] = gone]
        /\ slotVal' = [slotVal EXCEPT ![i] = IF gone THEN @ ELSE "err"]
    /\ Return("Err")
    /\ UNCHANGED <<state, hs, dropped, closed, enqOrder, eos, taskVars,
                   cbDropped, connVars>>

\* PollSendErr with cb dropped instead of being sent the error.
PollSendErr_noDelivery(gone) ==
    /\ PollReadyCall("Ready")
    /\ RxPoll.kind = "Item"
    /\ lastRx' = RxPoll.kind
    /\ LET i == RxPoll.item IN
        /\ ~canceled[i]
        /\ gone => Cardinality(Gone) < MaxCancel
        /\ queue' = RxPoll.rest
        /\ sendLog' = Append(sendLog, i)
        /\ sendRes' = [sendRes EXCEPT ![i] = "err"]
        /\ canceled' = [canceled EXCEPT ![i] = gone]
    /\ Continue
    /\ UNCHANGED <<state, hs, dropped, closed, enqOrder, eos, taskVars,
                   slotVars, connVars>>

\* PollSendErr without its `continue`: after the error is sent to cb the
\* iteration goes on to execute a response future for the request.
PollSendErr_fallThrough(gone) ==
    /\ PollReadyCall("Ready")
    /\ RxPoll.kind = "Item"
    /\ lastRx' = RxPoll.kind
    /\ LET i == RxPoll.item IN
        /\ ~canceled[i]
        /\ gone => Cardinality(Gone) < MaxCancel
        /\ queue' = RxPoll.rest
        /\ sendLog' = Append(sendLog, i)
        /\ sendRes' = [sendRes EXCEPT ![i] = "err"]
        /\ sends' = [sends EXCEPT ![i] = @ + 1]
        /\ canceled' = [canceled EXCEPT ![i] = gone]
        /\ slotVal' = [slotVal EXCEPT ![i] = IF gone THEN @ ELSE "err"]
        /\ resp' = [resp EXCEPT ![i] = "waiting"]
        /\ execLog' = Append(execLog, [task |-> "resp", id |-> i])
    /\ Continue
    /\ UNCHANGED <<state, hs, dropped, closed, enqOrder, eos, pipe,
                   cbDropped, connVars>>

\* Capacity, an item is dequeued, not canceled, and tx.send_request fails:
\* the error is sent to cb, `continue`.  gone: the caller dropped its end
\* between poll_cancel and cb.send, so that cb.send returns Err, ignored.
PollSendErr(gone) ==
    /\ PollReadyCall("Ready")
    /\ RxPoll.kind = "Item"
    /\ lastRx' = RxPoll.kind
    /\ LET i == RxPoll.item IN
        /\ ~canceled[i]
        /\ gone => Cardinality(Gone) < MaxCancel
        /\ queue' = RxPoll.rest
        /\ sendLog' = Append(sendLog, i)
        /\ sendRes' = [sendRes EXCEPT ![i] = "err"]
        /\ sends' = [sends EXCEPT ![i] = @ + 1]
        /\ canceled' = [canceled EXCEPT ![i] = gone]
        /\ slotVal' = [slotVal EXCEPT ![i] = IF gone THEN @ ELSE "err"]
    /\ Continue
    /\ UNCHANGED <<state, hs, dropped, closed, enqOrder, eos, taskVars,
                   cbDropped, connVars>>

\* PollSendOk without the poll_cancel check.
PollSendOk_noCancelCheck ==
    /\ PollReadyCall("Ready")
    /\ RxPoll.kind = "Item"
    /\ lastRx' = RxPoll.kind
    /\ LET i == RxPoll.item IN
        /\ queue' = RxPoll.rest
        /\ sendLog' = Append(sendLog, i)
        /\ sendRes' = [sendRes EXCEPT ![i] = "ok"]
        /\ IF ~eos[i]
           THEN /\ senders' = senders + 1
                /\ pipe' = [pipe EXCEPT ![i] = "running"]
                /\ execLog' = execLog \o <<[task |-> "pipe", id |-> i],
                                           [task |-> "resp", id |-> i]>>
           ELSE /\ UNCHANGED <<senders, pipe>>
                /\ execLog' = Append(execLog, [task |-> "resp", id |-> i])
        /\ resp' = [resp EXCEPT ![i] = "waiting"]
    /\ Continue
    /\ UNCHANGED <<state, hs, dropped, closed, enqOrder, eos, canceled,
                   slotVars, conn, comp>>

\* PollSendOk with the response future executed inside the `if !eos` block
\* only: a request without a body gets no response task.
PollSendOk_respOnlyWithBody ==
    /\ PollReadyCall("Ready")
    /\ RxPoll.kind = "Item"
    /\ lastRx' = RxPoll.kind
    /\ LET i == RxPoll.item IN
        /\ ~canceled[i]
        /\ queue' = RxPoll.rest
        /\ sendLog' = Append(sendLog, i)
        /\ sendRes' = [sendRes EXCEPT ![i] = "ok"]
        /\ IF ~eos[i]
           THEN /\ senders' = senders + 1
                /\ pipe' = [pipe EXCEPT ![i] = "running"]
                /\ execLog' = execLog \o <<[task |-> "pipe", id |-> i],
                                           [task |-> "resp", id |-> i]>>
                /\ resp' = [resp EXCEPT ![i] = "waiting"]
           ELSE /\ UNCHANGED <<senders, pipe, execLog, resp>>
    /\ Continue
    /\ UNCHANGED <<state, hs, dropped, closed, enqOrder, eos, canceled,
                   slotVars, conn, comp>>

\* PollSendOk with a yield after the dispatch: the iteration returns NotReady
\* instead of going round the loop.
PollSendOk_yield ==
    /\ PollReadyCall("Ready")
    /\ RxPoll.kind = "Item"
    /\ lastRx' = RxPoll.kind
    /\ LET i == RxPoll.item IN
        /\ ~canceled[i]
        /\ queue' = RxPoll.rest
        /\ sendLog' = Append(sendLog, i)
        /\ sendRes' = [sendRes EXCEPT ![i] = "ok"]
        /\ IF ~eos[i]
           THEN /\ senders' = senders + 1
                /\ pipe' = [pipe EXCEPT ![i] = "running"]
                /\ execLog' = execLog \o <<[task |-> "pipe", id |-> i],
                                           [task |-> "resp", id |-> i]>>
           ELSE /\ UNCHANGED <<senders, pipe>>
                /\ execLog' = Append(execLog, [task |-> "resp", id |-> i])
        /\ resp' = [resp EXCEPT ![i] = "waiting"]
    /\ Return("NotReady")
    /\ UNCHANGED <<state, hs, dropped, closed, enqOrder, eos, canceled,
                   slotVars, conn, comp>>

\* PollSendOk with the response future executed before the body pipe.
PollSendOk_respFirst ==
    /\ PollReadyCall("Ready")
    /\ RxPoll.kind = "Item"
    /\ lastRx' = RxPoll.kind
    /\ LET i == RxPoll.item IN
        /\ ~canceled[i]
        /\ queue' = RxPoll.rest
        /\ sendLog' = Append(sendLog, i)
        /\ sendRes' = [sendRes EXCEPT ![i] = "ok"]
        /\ IF ~eos[i]
           THEN /\ senders' = senders + 1
                /\ pipe' = [pipe EXCEPT ![i] = "running"]
                /\ execLog' = execLog \o <<[task |-> "resp", id |-> i],
                                           [task |-> "pipe", id |-> i]>>
           ELSE /\ UNCHANGED <<senders, pipe>>
                /\ execLog' = Append(execLog, [task |-> "resp", id |-> i])
        /\ resp' = [resp EXCEPT ![i] = "waiting"]
    /\ Continue
    /\ UNCHANGED <<state, hs, dropped, closed, enqOrder, eos, canceled,
                   slotVars, conn, comp>>

\* Capacity, an item is dequeued, not canceled, and tx.send_request succeeds:
\* unless eos, conn_dropper is cloned and the body pipe is executed; then the
\* response future is executed; `continue`.
PollSendOk ==
    /\ PollReadyCall("Ready")
    /\ RxPoll.kind = "Item"
    /\ lastRx' = RxPoll.kind
    /\ LET i == RxPoll.item IN
        /\ ~canceled[i]
        /\ queue' = RxPoll.rest
        /\ sendLog' = Append(sendLog, i)
        /\ sendRes' = [sendRes EXCEPT ![i] = "ok"]
        /\ IF ~eos[i]
           THEN /\ senders' = senders + 1
                /\ pipe' = [pipe EXCEPT ![i] = "running"]
                /\ execLog' = execLog \o <<[task |-> "pipe", id |-> i],
                                           [task |-> "resp", id |-> i]>>
           ELSE /\ UNCHANGED <<senders, pipe>>
                /\ execLog' = Append(execLog, [task |-> "resp", id |-> i])
        /\ resp' = [resp EXCEPT ![i] = "waiting"]
    /\ Continue
    /\ UNCHANGED <<state, hs, dropped, closed, enqOrder, eos, canceled,
                   slotVars, conn, comp>>

\* The owner of the Client drops it, between two calls of poll: rx goes, and
\* in State::Ready the ConnDropRef held by the state goes with it.
DropClient ==
    /\ ~dropped /\ pc = "idle"
    /\ dropped' = TRUE
    /\ senders' = IF state = "Ready" THEN senders - 1 ELSE senders
    /\ UNCHANGED <<state, hs, pc, result, everDone, lastRx, queueVars,
                   canceled, sessionVars, taskVars, slotVars, conn, comp>>

----------------------------------------------------------------------------
\* The futures handed to the executor.

\* PipeFinish with conn_drop_ref dropped on success only: a pipe that ends
\* with an error keeps its sender alive.
PipeFinish_keepOnErr(i, r) ==
    /\ pipe[i] = "running"
    /\ pipe' = [pipe EXCEPT ![i] = r]
    /\ senders' = IF r = "ok" THEN senders - 1 ELSE senders
    /\ UNCHANGED <<driverVars, queueVars, canceled, sessionVars, resp,
                   execLog, slotVars, conn, comp>>

\* PipeFinish with a body error reported to the caller: the pipe sends the
\* error to the response slot and the request's response is given up.
PipeFinish_failsRequest(i, r) ==
    /\ pipe[i] = "running"
    /\ pipe' = [pipe EXCEPT ![i] = r]
    /\ senders' = senders - 1
    /\ IF r = "err" /\ resp[i] = "waiting"
       THEN /\ resp' = [resp EXCEPT ![i] = "done"]
            /\ sends' = [sends EXCEPT ![i] = @ + 1]
            /\ slotVal' = [slotVal EXCEPT
                              ![i] = IF canceled[i] THEN @ ELSE "err"]
       ELSE UNCHANGED <<resp, sends, slotVal>>
    /\ UNCHANGED <<driverVars, queueVars, canceled, sessionVars, execLog,
                   cbDropped, conn, comp>>

\* The body pipe of request i ends with r; its `then` closure drops
\* conn_drop_ref and passes r on.
PipeFinish(i, r) ==
    /\ pipe[i] = "running"
    /\ pipe' = [pipe EXCEPT ![i] = r]
    /\ senders' = senders - 1
    /\ UNCHANGED <<driverVars, queueVars, canceled, sessionVars, resp,
                   execLog, slotVars, conn, comp>>

\* RespResolve with the result of cb.send not ignored: a delivery that fails
\* because the caller is gone surfaces as an error of the driver.
RespResolve_propagate(i, r) ==
    /\ resp[i] = "waiting"
    /\ resp' = [resp EXCEPT ![i] = "done"]
    /\ sends' = [sends EXCEPT ![i] = @ + 1]
    /\ slotVal' = [slotVal EXCEPT ![i] = IF canceled[i] THEN @ ELSE r]
    /\ result' = IF canceled[i] /\ pc = "idle" THEN "Err" ELSE result
    /\ UNCHANGED <<state, hs, pc, everDone, dropped, lastRx, queueVars,
                   canceled, sessionVars, pipe, execLog, cbDropped, connVars>>

\* The response future of request i resolves with r and its `then` closure
\* calls cb.send once; the value reaches the caller unless it is gone.
RespResolve(i, r) ==
    /\ resp[i] = "waiting"
    /\ resp' = [resp EXCEPT ![i] = "done"]
    /\ sends' = [sends EXCEPT ![i] = @ + 1]
    /\ slotVal' = [slotVal EXCEPT ![i] = IF canceled[i] THEN @ ELSE r]
    /\ UNCHANGED <<driverVars, queueVars, canceled, sessionVars, pipe,
                   execLog, cbDropped, connVars>>

\* The connection-driving future of h2 completes, with r.
ConnComplete(r) ==
    /\ conn = "running"
    /\ conn' = r
    /\ UNCHANGED <<driverVars, queueVars, canceled, sessionVars, taskVars,
                   slotVars, senders, comp>>

\* The sentinel receiver sees the channel closed: no sender is left.
SentinelClosed == comp # "none" /\ senders = 0

\* CompPoll with the composite future finishing as soon as the sentinel
\* closes, the connection future being dropped unfinished.
CompPoll_abandon ==
    /\ \/ /\ comp = "select"
          /\ conn # "running"
          /\ comp' = "ok"
       \/ /\ comp = "select"
          /\ conn = "running"
          /\ SentinelClosed
          /\ comp' = "ok"
    /\ UNCHANGED <<driverVars, queueVars, canceled, sessionVars, taskVars,
                   slotVars, senders, conn>>

\* CompPoll without the `then` closure that maps both outcomes of the
\* connection future to future::ok(()): a connection error becomes the
\* error of the composite task.
CompPoll_propagate ==
    /\ \/ /\ comp = "select"
          /\ conn # "running"
          /\ comp' = conn
       \/ /\ comp = "select"
          /\ conn = "running"
          /\ SentinelClosed
          /\ comp' = "shutdown"
       \/ /\ comp = "shutdown"
          /\ conn # "running"
          /\ comp' = conn
    /\ UNCHANGED <<driverVars, queueVars, canceled, sessionVars, taskVars,
                   slotVars, senders, conn>>

\* The executor polls the composite future and it makes progress.
\* select2 polls conn first, then the sentinel receiver; after Either::B the
\* future is conn alone.
CompPoll ==
    /\ \/ /\ comp = "select"
          /\ conn # "running"
          /\ comp' = "ok"
       \/ /\ comp = "select"
          /\ conn = "running"
          /\ SentinelClosed
          /\ comp' = "shutdown"
       \/ /\ comp = "shutdown"
          /\ conn # "running"
          /\ comp' = conn
    /\ UNCHANGED <<driverVars, queueVars, canceled, sessionVars, taskVars,
                   slotVars, senders, conn>>

----------------------------------------------------------------------------
Next ==
    \/ \E i \in Reqs, e \in BOOLEAN : Enqueue(i, e)
    \/ CloseQueue
    \/ \E i \in Reqs : Cancel(i)
    \/ PollHandshakeNotReady
    \/ PollHandshakeErr
    \/ PollHandshakeOk
    \/ PollCapacityNotReady
    \/ PollCapacityErr
    \/ PollQueueNotReady
    \/ PollQueueClosed
    \/ PollQueueErr
    \/ PollCanceled
    \/ \E gone \in BOOLEAN : PollSendErr(gone)
    \/ PollSendOk
    \/ DropClient
    \/ \E i \in Reqs, r \in {"ok", "err"} : PipeFinish(i, r)
    \/ \E i \in Reqs, r \in {"ok", "err"} : RespResolve(i, r)
    \/ \E r \in {"ok", "err"} : ConnComplete(r)
    \/ CompPoll

Spec == Init /\ [][Next]_vars

\* The executor runs every task it was handed, and every response future
\* of the session resolves: a waiting response task eventually takes its
\* step.
LiveSpec ==
    /\ Init /\ [][Next]_vars
    /\ \A i \in Reqs : WF_vars(\E r \in {"ok", "err"} : RespResolve(i, r))

----------------------------------------------------------------------------
\* Steps and facts the properties below speak about.

\* This step is one iteration of the loop of poll in State::Ready: the
\* session sees one more capacity check.
ReadyIter == readyCalls' = readyCalls + 1

\* This step takes the oldest item out of the queue.
Dequeues == queue # <<>> /\ queue' = Tail(queue)

\* Request i has been taken out of the queue by the driver.
Dequeued(i) == i \in Range(enqOrder) /\ i \notin Range(queue)

\* The tasks handed to the executor on behalf of request i.
TasksOf(i) == {k \in 1..Len(execLog) : execLog[k].id = i}

\* The composite connection futures handed to the executor.
CompositeTasks == {k \in 1..Len(execLog) : execLog[k].task = "conn"}

\* The body pipe tasks that were executed and have not finished.
RunningPipes == {i \in Reqs : pipe[i] = "running"}

\* The ConnDropRef held by the driver: the one in State::Ready, until the
\* Client is dropped.
DriverSender == IF state = "Ready" /\ ~dropped THEN 1 ELSE 0

\* Where in the executor's log the body pipe and the response future of
\* request i were handed over.
PipeSpawns(i) ==
    {k \in 1..Len(execLog) : execLog[k] = [task |-> "pipe", id |-> i]}
RespSpawns(i) ==
    {k \in 1..Len(execLog) : execLog[k] = [task |-> "resp", id |-> i]}

TypeOK ==
    /\ state \in {"Handshaking", "Ready"}
    /\ hs \in {"pending", "done", "failed"}
    /\ pc \in {"idle", "running"}
    /\ result \in {"none", "pending", "NotReady", "Done", "Err"}
    /\ (pc = "running") = (result = "pending")
    /\ senders \in 0..(MaxReq + 1)
    /\ readyCalls \in 0..MaxReadyCalls
    /\ lastRx \in {"none", "Item", "None", "NotReady", "Err"}

----------------------------------------------------------------------------
\* C1: as long as no caller has cancelled, the send_request calls the session
\* has seen are, in order, the first requests that were enqueued: the session
\* observes exchange initiation in enqueue order, whatever the number of poll
\* calls and however the spawned tasks interleave.
C1_DispatchInEnqueueOrder ==
    Gone = {} =>
        /\ Len(sendLog) <= Len(enqOrder)
        /\ sendLog = SubSeq(enqOrder, 1, Len(sendLog))

\* Two requests were dispatched in two different calls of poll, the first
\* response task having delivered before the second request was dispatched.
C1_Witness ==
    /\ Gone = {}
    /\ Len(sendLog) = 2
    /\ resp[sendLog[1]] = "done"
    /\ resp[sendLog[2]] = "waiting"

\* C2: an iteration whose capacity check reports NotReady returns NotReady
\* from poll and leaves the queue and the session's exchanges untouched; and
\* an item leaves the queue only in an iteration whose capacity check
\* reported Ready.
C2_BackpressureBeforeDequeue ==
    [][ /\ (ReadyIter /\ lastReady' = "NotReady") =>
              /\ pc' = "idle" /\ result' = "NotReady"
              /\ queue' = queue
              /\ sendLog' = sendLog /\ execLog' = execLog
        /\ Len(queue') < Len(queue) =>
              (ReadyIter /\ lastReady' = "Ready") ]_vars

\* Capacity was refused twice in a row while an item was waiting, and the
\* item is still there.
C2_Witness ==
    /\ lastReady = "NotReady" /\ result = "NotReady" /\ pc = "idle"
    /\ readyCalls >= 2
    /\ queue # <<>>
    /\ sendLog = <<>>

\* C3: a request found cancelled when it is dequeued never reaches the
\* session: no send_request call, no task, no delivery, and the iteration
\* that dequeues it ends with `continue`.
C3_CanceledNeverDispatched ==
    /\ [](\A i \in Reqs : cbDropped[i] =>
              /\ i \notin Range(sendLog) /\ sendRes[i] = "none"
              /\ TasksOf(i) = {}
              /\ pipe[i] = "none" /\ resp[i] = "none"
              /\ sends[i] = 0 /\ slotVal[i] = "empty")
    /\ [][ (Dequeues /\ canceled[Head(queue)]) =>
              /\ cbDropped'[Head(queue)]
              /\ sendLog' = sendLog /\ execLog' = execLog
              /\ pipe' = pipe /\ resp' = resp
              /\ sends' = sends /\ slotVal' = slotVal
              /\ pc' = "running" ]_vars

\* The first request was dropped as cancelled and the next one was then
\* dispatched.
C3_Witness ==
    /\ Len(enqOrder) >= 2
    /\ cbDropped[enqOrder[1]]
    /\ sendLog = <<enqOrder[2]>>

\* C4 as stated: once poll has returned done, every later poll returns done
\* and the session sees no further capacity check or send_request.
C4_Original ==
    [][ everDone =>
          /\ result' \in {"pending", "Done"}
          /\ readyCalls' = readyCalls
          /\ sendLog' = sendLog ]_vars

\* C4, amended: once poll has returned done the queue stays closed and
\* empty and the state stays Ready; every later call of poll is a single
\* iteration that makes the capacity check and nothing else on the session,
\* and returns done when the check reports Ready, NotReady when it reports
\* NotReady and the error when it fails; nothing is dequeued, dispatched or
\* spawned.
C4_AfterDone ==
    /\ [](everDone => (state = "Ready" /\ closed /\ queue = <<>>))
    /\ [][ (everDone /\ ReadyIter) =>
              /\ pc' = "idle"
              /\ lastReady' = "Ready" => result' = "Done"
              /\ lastReady' = "NotReady" => result' = "NotReady"
              /\ lastReady' = "Err" => result' = "Err"
              /\ sendLog' = sendLog /\ execLog' = execLog
              /\ queue' = queue /\ state' = state ]_vars

\* After having returned done, poll was called again and returned NotReady.
C4_Witness ==
    /\ everDone
    /\ result = "NotReady" /\ lastReady = "NotReady"

\* C5 as stated: poll returns an error only if the handshake failed.
C5_Original == result = "Err" => hs = "failed"

\* C5, amended: poll returns an error only if the handshake failed or, in
\* State::Ready, the capacity check tx.poll_ready failed; no step that
\* records a dispatch failure, a response, the end of a body pipe or a
\* delivery makes poll return an error.
C5_ErrorOnlyFromHandshakeOrCapacity ==
    /\ [](result = "Err" =>
              \/ state = "Handshaking" /\ hs = "failed"
              \/ state = "Ready" /\ lastReady = "Err")
    /\ [][ (sendRes' # sendRes \/ resp' # resp \/ pipe' # pipe
            \/ sends' # sends) => (result' = "Err" => result = "Err") ]_vars

\* A dispatch failure was recorded, a response task delivered an error, and
\* a later capacity check failed: only that made poll return an error.
C5_Witness ==
    /\ result = "Err" /\ lastReady = "Err" /\ state = "Ready"
    /\ \E i \in Reqs : sendRes[i] = "err"

\* C6: a send_request failure for request K is delivered, once, as an error
\* to the slot of K and to no other slot, K gets no task, the iteration ends
\* with `continue` and not with a return, and the requests behind K stay
\* queued in order for the next iterations.
C6_DispatchFailureIsPerRequest ==
    /\ [](\A k \in Reqs : sendRes[k] = "err" =>
              /\ sends[k] = 1
              /\ slotVal[k] = (IF canceled[k] THEN "empty" ELSE "err")
              /\ TasksOf(k) = {}
              /\ pipe[k] = "none" /\ resp[k] = "none")
    /\ [][ \A k \in Reqs : (sendRes[k] = "none" /\ sendRes'[k] = "err") =>
              /\ pc' = "running" /\ result' = "pending"
              /\ state' = "Ready"
              /\ queue # <<>> /\ k = Head(queue) /\ queue' = Tail(queue)
              /\ execLog' = execLog
              /\ \A j \in Reqs \ {k} :
                    sends'[j] = sends[j] /\ slotVal'[j] = slotVal[j] ]_vars

\* The first request failed at dispatch and the second one was dispatched
\* in the very next iteration of the same call of poll.
C6_Witness ==
    /\ Len(sendLog) = 2
    /\ sendRes[sendLog[1]] = "err" /\ slotVal[sendLog[1]] = "err"
    /\ sendRes[sendLog[2]] = "ok"
    /\ readyCalls = 2

\* C7: the composite task finishes only when the connection-driving future
\* has completed.  When the sentinel is closed while that future is still
\* running, a poll of the composite task does not finish it: the task goes
\* on as the connection future alone and ends with that future's result.
C7_GracefulShutdown ==
    /\ [](comp \in {"ok", "err"} => conn \in {"ok", "err"})
    /\ [](comp = "shutdown" => SentinelClosed)
    /\ [][ /\ (comp = "select" /\ comp' # comp /\ conn = "running") =>
                (SentinelClosed /\ comp' = "shutdown")
           /\ (comp = "shutdown" /\ comp' # comp) =>
                (conn \in {"ok", "err"} /\ comp' = conn) ]_vars

\* The Client was dropped and the last body pipe ended while the connection
\* future was running: the composite task goes on with the connection.
C7_Witness ==
    /\ comp = "shutdown" /\ conn = "running"
    /\ dropped /\ senders = 0
    /\ \E i \in Reqs : pipe[i] \in {"ok", "err"}

\* C8: cb.send is called at most once per request: exactly once when
\* send_request failed and exactly once when the response future has
\* resolved, not before it resolves, and never for a request that was found
\* cancelled when dequeued.
C8_SlotWrittenAtMostOnce ==
    \A i \in Reqs :
        /\ sends[i] <= 1
        /\ sendRes[i] = "err" => sends[i] = 1
        /\ resp[i] = "done" => sends[i] = 1
        /\ resp[i] = "waiting" => sends[i] = 0
        /\ cbDropped[i] => sends[i] = 0
        /\ sends[i] = 1 => (sendRes[i] = "err" \/ resp[i] = "done")

\* One request failed at dispatch, another got its response: each slot was
\* written once.
C8_Witness ==
    \E i, j \in Reqs :
        /\ sendRes[i] = "err" /\ sends[i] = 1
        /\ resp[j] = "done" /\ sends[j] = 1 /\ slotVal[j] = "ok"

\* C9: under LiveSpec, every request the driver has dequeued eventually has
\* something sent to its slot (a response or an error) or has its cb
\* dropped; no dequeued slot stays pending forever.
C9_DequeuedSlotEventuallySettled ==
    \A i \in Reqs : Dequeued(i) ~> (sends[i] = 1 \/ cbDropped[i])

\* A request without body was dispatched and its response task delivered
\* the session's error to the slot.
C9_Witness ==
    \E i \in Reqs :
        /\ Dequeued(i) /\ eos[i] /\ sendRes[i] = "ok"
        /\ resp[i] = "done" /\ sends[i] = 1 /\ slotVal[i] = "err"

\* C10: cancellation after a successful send_request is not retroactive.
\* The step by which the caller of a dispatched request gives up changes no
\* task, no session call and nothing of the driver; the tasks of such a
\* request are never removed and the session sees no second call for it;
\* and when its response task then resolves, cb.send is still called once,
\* nothing reaches the slot, and the driver's state, position and poll
\* result are unchanged.
C10_CancelAfterDispatchNotRetroactive ==
    /\ [](\A i \in Reqs :
              Cardinality({k \in 1..Len(sendLog) : sendLog[k] = i}) <= 1)
    /\ [][ \A i \in Reqs :
              /\ (sendRes[i] = "ok" /\ ~canceled[i] /\ canceled'[i]) =>
                    /\ pipe' = pipe /\ resp' = resp /\ execLog' = execLog
                    /\ sendLog' = sendLog /\ readyCalls' = readyCalls
                    /\ state' = state /\ pc' = pc /\ result' = result
              /\ (sendRes[i] = "ok" /\ canceled[i]) =>
                    /\ resp'[i] # "none"
                    /\ pipe[i] # "none" => pipe'[i] # "none"
                    /\ sendRes'[i] = "ok"
              /\ (canceled[i] /\ resp[i] = "waiting" /\ resp'[i] = "done") =>
                    /\ sends'[i] = 1 /\ slotVal'[i] = "empty"
                    /\ sendLog' = sendLog /\ readyCalls' = readyCalls
                    /\ state' = state /\ pc' = pc /\ result' = result
          ]_vars

\* A request with a body was dispatched, then cancelled by its caller; both
\* its tasks ran to their end, the delivery failed, and the driver went on to
\* return done.
C10_Witness ==
    \E i \in Reqs :
        /\ sendRes[i] = "ok" /\ canceled[i]
        /\ pipe[i] \in {"ok", "err"} /\ resp[i] = "done"
        /\ sends[i] = 1 /\ slotVal[i] = "empty"
        /\ result = "Done"

\* C11: the state goes from Handshaking to Ready and never back.  The only
\* step that changes it is the iteration in which the handshake reports
\* success, and that same step creates the sentinel (one sender) and hands
\* the composite future to the executor; this happens once, so that exactly
\* one composite task exists in state Ready and none in state Handshaking.
C11_HandshakingToReadyOnce ==
    /\ [](/\ (state = "Handshaking" =>
                (hs # "done" /\ comp = "none" /\ CompositeTasks = {}))
          /\ (state = "Ready" =>
                (hs = "done" /\ comp # "none"
                 /\ Cardinality(CompositeTasks) = 1)))
    /\ [][ /\ (state = "Ready" => state' = "Ready")
           /\ (\/ state' # state
               \/ (hs' = "done" /\ hs # "done")
               \/ CompositeTasks' # CompositeTasks
               \/ (comp = "none" /\ comp' # "none")) =>
                 /\ state = "Handshaking" /\ state' = "Ready"
                 /\ hs = "pending" /\ hs' = "done"
                 /\ comp = "none" /\ comp' = "select"
                 /\ senders = 0 /\ senders' = 1
                 /\ execLog' = Append(execLog, [task |-> "conn", id |-> 0])
                 /\ pc' = "running" ]_vars

\* The handshake succeeded, and three iterations in Ready later the state is
\* still Ready with its one composite task.
C11_Witness ==
    /\ state = "Ready" /\ hs = "done"
    /\ readyCalls >= 3
    /\ Cardinality(CompositeTasks) = 1

\* C12: in every reachable state the number of live sentinel senders is the
\* number of body pipe tasks that have not finished, plus one for the sender
\* held in State::Ready (none while Handshaking or once the Client is
\* dropped); response tasks hold none and do not count.
C12_SenderCount ==
    senders = Cardinality(RunningPipes) + DriverSender

\* The driver in Ready, one body pipe still running, and a response task
\* waiting for a request without body: two senders.
C12_Witness ==
    /\ state = "Ready" /\ ~dropped
    /\ senders = 2
    /\ \E i, j \in Reqs :
          /\ pipe[i] = "running"
          /\ pipe[j] = "none" /\ resp[j] = "waiting"

\* C13: a step in which poll returns NotReady is one in which the handshake,
\* the capacity check or rx.poll() reported NotReady; and an iteration in
\* Ready whose capacity check reports Ready and whose rx.poll() yields an
\* item takes that item out of the queue and goes round the loop instead of
\* returning, so one call of poll dispatches item after item.
C13_SuspendsOnlyAtThreePoints ==
    [][ /\ (result' = "NotReady" /\ (result # "NotReady" \/ ReadyIter)) =>
              \/ /\ state = "Handshaking" /\ state' = "Handshaking"
                 /\ hs = "pending" /\ hs' = "pending"
              \/ /\ ReadyIter /\ lastReady' = "NotReady" /\ lastRx' = "none"
              \/ /\ ReadyIter /\ lastReady' = "Ready"
                 /\ lastRx' = "NotReady" /\ queue = <<>> /\ ~closed
        /\ (ReadyIter /\ lastReady' = "Ready" /\ lastRx' = "Item") =>
              /\ Dequeues
              /\ pc' = "running" /\ result' = "pending"
        /\ (ReadyIter /\ lastReady' = "Ready" /\ queue # <<>>) =>
              lastRx' \in {"Item", "Err"} ]_vars

\* Request A without body, then request B with a body, were both dispatched
\* in the first two iterations in Ready, within one call of poll that is
\* still running.
C13_Witness ==
    /\ pc = "running" /\ readyCalls = 2
    /\ Len(sendLog) = 2
    /\ eos[sendLog[1]] /\ ~eos[sendLog[2]]
    /\ sendRes[sendLog[1]] = "ok" /\ sendRes[sendLog[2]] = "ok"

\* C14: when the connection future has completed, with success or with an
\* error, while the composite task is still racing it against the sentinel,
\* the composite task finishes with success at its next poll.  Neither the
\* completion of the connection future nor the end of the composite task
\* changes the driver's state, position, poll result or sender, and the
\* driver can still dispatch the next queued request afterwards.
C14_ConnCompletionNotPropagated ==
    /\ [][ /\ (comp = "select" /\ comp' # comp /\ conn # "running") =>
                comp' = "ok"
           /\ ((conn = "running" /\ conn' # "running")
               \/ (comp # "none" /\ comp' # comp)) =>
                /\ state' = state /\ pc' = pc /\ result' = result
                /\ dropped' = dropped /\ senders' = senders
                /\ readyCalls' = readyCalls /\ sendLog' = sendLog
                /\ queue' = queue /\ sends' = sends ]_vars
    /\ []((/\ conn \in {"ok", "err"} /\ state = "Ready" /\ ~dropped
           /\ readyCalls < MaxReadyCalls
           /\ queue # <<>> /\ ~canceled[Head(queue)]) =>
              (senders >= 1 /\ ENABLED PollSendOk))

\* The connection future failed, the composite task finished with success,
\* and the driver, still holding its sender, dispatched a request and went
\* on to return NotReady on an empty queue.
C14_Witness ==
    /\ conn = "err" /\ comp = "ok"
    /\ state = "Ready" /\ ~dropped /\ senders = 1
    /\ sendLog # <<>>
    /\ result = "NotReady" /\ lastRx = "NotReady"

\* C15: for every request whose send_request succeeded exactly one response
\* future was executed, and a body pipe was executed if and only if the body
\* was not at end of stream, before the response future; the step that
\* dispatches clones the sentinel sender exactly when it executes a pipe.
\* A request that was not dispatched with success has neither task.
C15_TasksPerDispatch ==
    /\ [](\A i \in Reqs :
              IF sendRes[i] = "ok"
              THEN /\ Cardinality(RespSpawns(i)) = 1
                   /\ Cardinality(PipeSpawns(i)) = (IF eos[i] THEN 0 ELSE 1)
                   /\ \A p \in PipeSpawns(i) : p + 1 \in RespSpawns(i)
              ELSE RespSpawns(i) = {} /\ PipeSpawns(i) = {})
    /\ [][ \A i \in Reqs : (sendRes[i] = "none" /\ sendRes'[i] = "ok") =>
              /\ resp[i] = "none" /\ resp'[i] = "waiting"
              /\ pipe'[i] = (IF eos[i] THEN "none" ELSE "running")
              /\ senders' = senders + (IF eos[i] THEN 0 ELSE 1) ]_vars

\* A request with a body got a pipe and then a response future, a request
\* without body got a response future only.
C15_Witness ==
    \E i, j \in Reqs :
        /\ sendRes[i] = "ok" /\ ~eos[i] /\ PipeSpawns(i) # {}
        /\ sendRes[j] = "ok" /\ eos[j] /\ PipeSpawns(j) = {}
        /\ RespSpawns(j) # {}

\* C16: the step in which a body pipe ends, with success or with an error,
\* drops one sentinel sender and changes nothing else: not the driver's
\* state, position or poll result, not the slot (no cb.send, no value), and
\* not the request's response task, which stays able to deliver.
C16_PipeErrorStaysLocal ==
    /\ [][ \A i \in Reqs : (pipe[i] = "running" /\ pipe'[i] # "running") =>
              /\ pipe'[i] \in {"ok", "err"}
              /\ senders' = senders - 1
              /\ state' = state /\ pc' = pc /\ result' = result
              /\ sends' = sends /\ slotVal' = slotVal
              /\ resp' = resp
              /\ (resp[i] = "waiting" =>
                    ENABLED (\E r \in {"ok", "err"} : RespResolve(i, r)))'
          ]_vars
    /\ [](\A i \in Reqs : pipe[i] = "err" =>
              (resp[i] \in {"waiting", "done"} /\ sendRes[i] = "ok"))

\* The body pipe of a request failed, and its response task then delivered
\* a response to the slot; the driver went on to return done.
C16_Witness ==
    \E i \in Reqs :
        /\ pipe[i] = "err"
        /\ resp[i] = "done" /\ sends[i] = 1 /\ slotVal[i] = "ok"
        /\ result = "Done" /\ state = "Ready"

\* C17: an iteration in Ready whose capacity check reports Ready and whose
\* rx.poll() reports the queue closed or reports an error returns done from
\* poll, not an error, and initiates no exchange, executes no task, takes
\* nothing from the queue and delivers nothing; a closed and empty queue is
\* reported as such.
C17_ClosedOrErroredQueueIsDone ==
    [][ /\ (ReadyIter /\ lastReady' = "Ready"
             /\ lastRx' \in {"None", "Err"}) =>
              /\ pc' = "idle" /\ result' = "Done"
              /\ state' = state
              /\ sendLog' = sendLog /\ sendRes' = sendRes
              /\ execLog' = execLog /\ pipe' = pipe /\ resp' = resp
              /\ senders' = senders
              /\ queue' = queue
              /\ sends' = sends /\ slotVal' = slotVal
        /\ (ReadyIter /\ lastReady' = "Ready" /\ queue = <<>> /\ closed) =>
              lastRx' \in {"None", "Err"}
        /\ (ReadyIter /\ result' = "Done") =>
              (lastReady' = "Ready" /\ lastRx' \in {"None", "Err"}) ]_vars

\* rx.poll() reported an error while the queue was open and an item was
\* waiting: poll returned done and the item is still queued.
C17_Witness ==
    /\ result = "Done" /\ lastRx = "Err" /\ lastReady = "Ready"
    /\ ~closed /\ queue # <<>>
    /\ state = "Ready"

\* C18: the iteration in which the handshake fails returns the error from
\* poll and leaves the state Handshaking, with no composite task, no
\* sentinel and the queue untouched; an iteration in which the handshake is
\* NotReady returns NotReady with the same things unchanged.  As long as the
\* state is Handshaking nothing has been executed, no sender exists, no
\* item has left the queue and the session has seen no call.
C18_HandshakeFailureIsFatal ==
    /\ [][ /\ (hs = "pending" /\ hs' = "failed") =>
                /\ pc' = "idle" /\ result' = "Err"
                /\ state = "Handshaking" /\ state' = "Handshaking"
                /\ comp' = "none" /\ conn' = "none" /\ senders' = 0
                /\ execLog' = execLog /\ queue' = queue
                /\ lastRx' = "none"
           /\ (state' = "Handshaking" /\ result' = "NotReady"
               /\ result # "NotReady") =>
                /\ pc' = "idle" /\ hs = "pending" /\ hs' = "pending"
                /\ comp' = "none" /\ conn' = "none" /\ senders' = 0
                /\ execLog' = execLog /\ queue' = queue
                /\ lastRx' = "none" ]_vars
    /\ [](state = "Handshaking" =>
              /\ comp = "none" /\ conn = "none" /\ senders = 0
              /\ execLog = <<>> /\ sendLog = <<>> /\ readyCalls = 0
              /\ queue = enqOrder /\ lastRx = "none")
    /\ [](hs = "failed" => (state = "Handshaking" /\ result = "Err"))

\* The handshake was NotReady, then failed, with a request waiting in the
\* queue: poll returned the error and the request is still queued.
C18_Witness ==
    /\ hs = "failed" /\ result = "Err" /\ state = "Handshaking"
    /\ queue # <<>> /\ comp = "none" /\ senders = 0

\* C19: while the driver is in Ready and has not been dropped the sentinel
\* is not closed, also after poll has returned done, and returning done
\* releases no sender.  Once the sentinel exists it is closed exactly when
\* the Client has been dropped and no body pipe is running, whatever the
\* number of response tasks still waiting.
C19_SentinelClosesOnDropAndPipesDone ==
    /\ []((state = "Ready" /\ ~dropped) => (~SentinelClosed /\ senders >= 1))
    /\ [](state = "Ready" =>
             (SentinelClosed <=> (dropped /\ RunningPipes = {})))
    /\ [](state = "Handshaking" => ~SentinelClosed)
    /\ [][ (ReadyIter /\ result' = "Done") => senders' = senders ]_vars

\* poll returned done, the Client was then dropped with no pipe running:
\* the sentinel is closed although a response task is still waiting.
C19_Witness ==
    /\ SentinelClosed /\ dropped /\ everDone
    /\ \E i \in Reqs : resp[i] = "waiting"

\* C20: an iteration in Ready whose capacity check reports an error returns
\* that error from poll without calling rx.poll(): nothing leaves the queue,
\* no cb is sent to or dropped, no exchange is initiated, no task executed,
\* and the state stays Ready.
C20_CapacityErrorIsReturned ==
    [][ (ReadyIter /\ lastReady' = "Err") =>
          /\ pc' = "idle" /\ result' = "Err"
          /\ lastRx' = "none"
          /\ queue' = queue
          /\ sends' = sends /\ slotVal' = slotVal /\ cbDropped' = cbDropped
          /\ sendLog' = sendLog /\ execLog' = execLog
          /\ state = "Ready" /\ state' = "Ready"
          /\ senders' = senders ]_vars

\* The very first capacity check failed with a request waiting: poll
\* returned the error, nothing was dispatched and the request is still
\* queued.
C20_Witness ==
    /\ result = "Err" /\ lastReady = "Err" /\ lastRx = "none"
    /\ state = "Ready" /\ readyCalls = 1
    /\ queue # <<>> /\ sendLog = <<>>

====
